---- MODULE Spec2Model ----
(***************************************************************************)
(* A model of mlogfilter.py: the temporal-expression interpreter of        *)
(* DateTimeFilter (_interpretDateTime), its range decision (accept /       *)
(* skipRemaining) and the filter pipeline MongoLogParser.parse.            *)
(*                                                                         *)
(* Text is modelled at the level of whitespace-separated tokens.  A token  *)
(* is a record that carries its lexical shape:                             *)
(*   [t |-> "name", s]                 letters only, e.g. Mon, Sep, today  *)
(*   [t |-> "num",  digits, val]       digits only, e.g. 05                *)
(*   [t |-> "numx", digits, val]       digits followed by other text: 5x   *)
(*   [t |-> "hm",   hd, h, m]          <hd digits>:<2 digits>              *)
(*   [t |-> "hms",  hd, h, m, s]       <hd digits>:<2 digits>:<2 digits>   *)
(*   [t |-> "hmsx", hd, h, m, s]       an hms token followed by other      *)
(*                                     text, e.g. 23:02:26.123             *)
(*   [t |-> "off",  sign, val, unit]   <sign><digits><letters>             *)
(*   [t |-> "text", s]                 anything else, e.g. [conn1]         *)
(*   [t |-> "stars", n]                a run of n asterisks                *)
(***************************************************************************)
EXTENDS Integers, Sequences, FiniteSets, TLC

VARIABLES now, fromExpr, toExpr, fromDateTime, toDateTime, last,
          toReached, acc, calls, slowActive, words, logfile, lineno, output,
          evaluated, error, pc

vars == <<now, fromExpr, toExpr, fromDateTime, toDateTime, last,
          toReached, acc, calls, slowActive, words, logfile, lineno, output,
          evaluated, error, pc>>

(***************************************************************************)
(* Bounds of the model.                                                    *)
(***************************************************************************)
MaxComps == 3
MaxLines == 3
MaxCalls == 2

(***************************************************************************)
(* Generic helpers.                                                        *)
(***************************************************************************)
None == [t |-> "None"]

Range(seq) == {seq[i] : i \in 1..Len(seq)}

\* 1-based position of x in seq (list.index(x) + 1)
IndexOf(seq, x) == CHOOSE i \in 1..Len(seq) : seq[i] = x

Put(d, k, v) == [x \in (DOMAIN d) \cup {k} |-> IF x = k THEN v ELSE d[x]]

Del(d, k) == [x \in (DOMAIN d) \ {k} |-> d[x]]

EmptyDict == [x \in {} |-> 0]

RECURSIVE Flatten(_)
Flatten(ss) == IF ss = <<>> THEN <<>> ELSE Head(ss) \o Flatten(Tail(ss))

RECURSIVE SeqsUpTo(_, _)
SeqsUpTo(S, n) ==
    IF n = 0 THEN {<<>>}
    ELSE LET shorter == SeqsUpTo(S, n - 1)
         IN  shorter \cup {Append(q, x) : q \in shorter, x \in S}

(***************************************************************************)
(* The calendar of datetime: proleptic Gregorian, years MINYEAR..MAXYEAR.  *)
(***************************************************************************)
MINYEAR == 1
MAXYEAR == 9999

IsLeap(y) == y % 4 = 0 /\ (y % 100 # 0 \/ y % 400 = 0)

DAYS_IN_MONTH == <<31, 28, 31, 30, 31, 30, 31, 31, 30, 31, 30, 31>>

DAYS_BEFORE_MONTH == <<0, 31, 59, 90, 120, 151, 181, 212, 243, 273, 304, 334>>

DaysInMonth(y, m) == IF m = 2 /\ IsLeap(y) THEN 29 ELSE DAYS_IN_MONTH[m]

DaysBeforeYear(y) ==
    LET p == y - 1 IN p * 365 + (p \div 4) - (p \div 100) + (p \div 400)

DaysBeforeMonth(y, m) ==
    DAYS_BEFORE_MONTH[m] + (IF m > 2 /\ IsLeap(y) THEN 1 ELSE 0)

\* date.toordinal(): 0001-01-01 is day 1
Ymd2Ord(y, m, d) == DaysBeforeYear(y) + DaysBeforeMonth(y, m) + d

MaxOrdinal == Ymd2Ord(MAXYEAR, 12, 31)

\* date.fromordinal()
Ord2Ymd(ord) ==
    LET n0   == ord - 1
        n400 == n0 \div 146097
        r400 == n0 % 146097
        n100 == r400 \div 36524
        r100 == r400 % 36524
        n4   == r100 \div 1461
        r4   == r100 % 1461
        n1   == r4 \div 365
        n    == r4 % 365
        y    == n400 * 400 + 1 + n100 * 100 + n4 * 4 + n1
    IN  IF n1 = 4 \/ n100 = 4
        THEN [year |-> y - 1, month |-> 12, day |-> 31]
        ELSE LET leap == n1 = 3 /\ (n4 # 24 \/ n100 = 3)
                 m0   == (n + 50) \div 32
                 p0   == DAYS_BEFORE_MONTH[m0]
                            + (IF m0 > 2 /\ leap THEN 1 ELSE 0)
                 m    == IF p0 > n THEN m0 - 1 ELSE m0
                 p    == IF p0 > n
                         THEN p0 - (DAYS_IN_MONTH[m]
                                     + (IF m = 2 /\ leap THEN 1 ELSE 0))
                         ELSE p0
             IN  [year |-> y, month |-> m, day |-> n - p + 1]

\* date.weekday(): Monday is 0
Weekday(ord) == (ord + 6) % 7

Datetime(y, mo, d, h, mi, s) ==
    [year |-> y, month |-> mo, day |-> d, hour |-> h, minute |-> mi, second |-> s]

\* datetime(MINYEAR, 1, 1): what 'start' and an empty expression resolve to
MinInstant == Datetime(MINYEAR, 1, 1, 0, 0, 0)

\* the checks of the datetime constructor (ValueError when they fail)
ValidFields(y, mo, d, h, mi, s) ==
    /\ y \in MINYEAR..MAXYEAR
    /\ mo \in 1..12
    /\ d >= 1 /\ d <= DaysInMonth(y, mo)
    /\ h \in 0..23 /\ mi \in 0..59 /\ s \in 0..59

SecondOfDay(dt) == dt.hour * 3600 + dt.minute * 60 + dt.second

\* a < b on datetime objects
DtLess(a, b) ==
    LET ka == <<a.year, a.month, a.day, a.hour, a.minute, a.second>>
        kb == <<b.year, b.month, b.day, b.hour, b.minute, b.second>>
    IN  \E i \in 1..6 : ka[i] < kb[i] /\ \A j \in 1..(i - 1) : ka[j] = kb[j]

DtLeq(a, b) == a = b \/ DtLess(a, b)

\* datetime + timedelta(days, seconds): None stands for OverflowError
AddDelta(dt, days, seconds) ==
    LET total == SecondOfDay(dt) + seconds
        ord   == Ymd2Ord(dt.year, dt.month, dt.day) + days + (total \div 86400)
        sod   == total % 86400
    IN  IF ord < 1 \/ ord > MaxOrdinal THEN None
        ELSE LET ymd == Ord2Ymd(ord)
             IN  Datetime(ymd.year, ymd.month, ymd.day,
                          sod \div 3600, (sod % 3600) \div 60, sod % 60)

(***************************************************************************)
(* DateTimeFilter: the class attributes.                                   *)
(***************************************************************************)
timeunits == {"s", "sec", "m", "min", "h", "hours", "d", "days", "w", "weeks",
              "mo", "months", "y", "years"}

weekdays == <<"Mon", "Tue", "Wed", "Thu", "Fri", "Sat", "Sun">>

months == <<"Jan", "Feb", "Mar", "Apr", "May", "Jun",
            "Jul", "Aug", "Sep", "Oct", "Nov", "Dec">>

\* the alternatives of the 'word' regex
wordRegex == {"now", "start", "end", "today", "from"}

\* the keys of dtRegexes, in the order of the OrderedDict
dtRegexOrderSwapped == <<"weekday", "word", "date", "time2", "time3", "offset">>

dtRegexes == <<"weekday", "date", "word", "time2", "time3", "offset">>

(***************************************************************************)
(* re.match('(' + dtRegexes[idx] + ')($|\s+)', timemark): the number of    *)
(* tokens of timemark the match consumes, 0 when there is no match.  Each  *)
(* grammar must be followed by the end of the text or by whitespace, so a  *)
(* match always ends at a token boundary.                                  *)
(***************************************************************************)
MatchLen(idx, timemark) ==
    LET n  == Len(timemark)
        t1 == timemark[1]
        t2 == timemark[2]
    IN  IF n = 0 THEN 0
        ELSE CASE idx = "weekday" ->
                    IF t1.t = "name" /\ t1.s \in Range(weekdays) THEN 1 ELSE 0
               [] idx = "date" ->
                    IF /\ t1.t = "name" /\ t1.s \in Range(months)
                       /\ n >= 2 /\ t2.t = "num" /\ t2.digits \in 1..2
                    THEN 2 ELSE 0
               [] idx = "word" ->
                    IF t1.t = "name" /\ t1.s \in wordRegex THEN 1 ELSE 0
               [] idx = "time2" ->
                    IF t1.t = "hm" /\ t1.hd \in 1..2 THEN 1 ELSE 0
               [] idx = "time3" ->
                    IF t1.t = "hms" /\ t1.hd \in 1..2 THEN 1 ELSE 0
               [] idx = "offset" ->
                    IF t1.t = "off" /\ t1.unit \in timeunits THEN 1 ELSE 0

\* the loop "for idx in self.dtRegexes", from its i-th iteration on
RECURSIVE TokenizeFrom(_, _, _)
TokenizeFrom(i, timemark, dtdict) ==
    IF i > Len(dtRegexes) THEN [timemark |-> timemark, dtdict |-> dtdict]
    ELSE LET idx == dtRegexes[i]
             n   == MatchLen(idx, timemark)
         IN  IF n > 0
             THEN TokenizeFrom(i + 1, SubSeq(timemark, n + 1, Len(timemark)),
                               Put(dtdict, idx, SubSeq(timemark, 1, n)))
             ELSE TokenizeFrom(i + 1, timemark, dtdict)

Tokenize(timemark) == TokenizeFrom(1, timemark, EmptyDict)

(***************************************************************************)
(* _interpretDateTime after the tokenizer: month and day.                  *)
(***************************************************************************)
ResolveDate(d0, nw) ==
    LET K == DOMAIN d0
    IN  IF "date" \in K
        THEN LET m  == d0["date"][1].s
                 d  == d0["date"][2].val
                 d1 == Put(Put(d0, "month", IndexOf(months, m)), "day", d)
             IN  [dtdict |-> Del(Del(d1, "date"), "weekday"),
                  skiptime |-> FALSE, nodate |-> FALSE]
        ELSE IF "weekday" \in K
        THEN LET today  == Ymd2Ord(nw.year, nw.month, nw.day)
                 offset == (Weekday(today)
                              - (IndexOf(weekdays, d0["weekday"][1].s) - 1)) % 7
                 d      == Ord2Ymd(today - offset)
                 d1     == Put(Put(d0, "month", d.month), "day", d.day)
             IN  [dtdict |-> Del(d1, "weekday"),
                  skiptime |-> FALSE, nodate |-> FALSE]
        ELSE IF "word" \in K
        THEN LET w == d0["word"][1].s
             IN  IF w = "now"
                 THEN [dtdict |-> Del([x \in K \cup {"month", "day", "hour", "minute", "second"} |->
                                         CASE x = "month"  -> nw.month
                                           [] x = "day"    -> nw.day
                                           [] x = "hour"   -> nw.hour
                                           [] x = "minute" -> nw.minute
                                           [] x = "second" -> nw.second
                                           [] OTHER        -> d0[x]], "word"),
                       skiptime |-> TRUE, nodate |-> FALSE]
                 ELSE IF w = "today"
                 THEN [dtdict |-> Del(Put(Put(d0, "month", nw.month), "day", nw.day), "word"),
                       skiptime |-> FALSE, nodate |-> FALSE]
                 ELSE IF w = "start"
                 THEN [dtdict |-> Del(Put(Put(Put(d0, "year", MINYEAR), "month", 1), "day", 1), "word"),
                       skiptime |-> TRUE, nodate |-> FALSE]
                 ELSE IF w = "end"
                 THEN [dtdict |-> Del(Put(Put(Put(d0, "year", MAXYEAR), "month", 12), "day", 31), "word"),
                       skiptime |-> TRUE, nodate |-> FALSE]
                 ELSE [dtdict |-> Del(d0, "word"),
                       skiptime |-> FALSE, nodate |-> FALSE]
        ELSE IF "time2" \in K \/ "time3" \in K
        THEN [dtdict |-> Put(Put(d0, "month", nw.month), "day", nw.day),
              skiptime |-> FALSE, nodate |-> FALSE]
        ELSE [dtdict |-> Put(Put(Put(d0, "year", MINYEAR), "month", 1), "day", 1),
              skiptime |-> FALSE, nodate |-> TRUE]

(***************************************************************************)
(* _interpretDateTime: hour, minute and second ("if not skiptime").        *)
(***************************************************************************)
ResolveTime(st) ==
    LET d0 == st.dtdict
        K  == DOMAIN d0
        hms(h, m, s) == Put(Put(Put(d0, "hour", h), "minute", m), "second", s)
    IN  IF st.skiptime THEN [dtdict |-> d0, notime |-> FALSE, nodate |-> st.nodate]
        ELSE IF "time2" \in K
        THEN [dtdict |-> Del(hms(d0["time2"][1].h, d0["time2"][1].m, 0), "time2"),
              notime |-> FALSE, nodate |-> st.nodate]
        ELSE IF "time3" \in K
        THEN [dtdict |-> Del(hms(d0["time3"][1].h, d0["time3"][1].m, d0["time3"][1].s), "time3"),
              notime |-> FALSE, nodate |-> st.nodate]
        ELSE [dtdict |-> hms(0, 0, 0), notime |-> TRUE, nodate |-> st.nodate]

(***************************************************************************)
(* _interpretDateTime: the offset and the construction of the result.      *)
(***************************************************************************)
DatetimeFields == {"year", "month", "day", "hour", "minute", "second"}

\* datetime called with dtdict as keywords: month and day are required, hour, minute and second
\* default to 0, any other keyword is a TypeError
DatetimeKw(d) ==
    LET K == DOMAIN d
        opt(k) == IF k \in K THEN d[k] ELSE 0
    IN  IF ~(K \subseteq DatetimeFields) \/ ~({"year", "month", "day"} \subseteq K)
        THEN [status |-> "TypeError", dt |-> None]
        ELSE IF ValidFields(d["year"], d["month"], d["day"],
                            opt("hour"), opt("minute"), opt("second"))
        THEN [status |-> "ok",
              dt |-> Datetime(d["year"], d["month"], d["day"],
                              opt("hour"), opt("minute"), opt("second"))]
        ELSE [status |-> "ValueError", dt |-> None]

\* the if/elif chain over the unit
NormalizeUnit(unit) ==
    CASE unit \in {"s", "sec"}     -> "seconds"
      [] unit \in {"m", "min"}     -> "minutes"
      [] unit \in {"h", "hours"}   -> "hours"
      [] unit \in {"d", "days"}    -> "days"
      [] unit \in {"w", "weeks"}   -> "weeks"
      [] unit \in {"mo", "months"} -> "months"
      [] unit \in {"y", "years"}   -> "years"
      [] OTHER                     -> unit

\* eval('timedelta(%s=%i)' % (unit, n)): timedelta knows no months and no
\* years, None stands for its TypeError
Timedelta(unit, n) ==
    CASE unit = "seconds" -> [days |-> 0, seconds |-> n]
      [] unit = "minutes" -> [days |-> 0, seconds |-> 60 * n]
      [] unit = "hours"   -> [days |-> 0, seconds |-> 3600 * n]
      [] unit = "days"    -> [days |-> n, seconds |-> 0]
      [] unit = "weeks"   -> [days |-> 7 * n, seconds |-> 0]
      [] OTHER            -> None

\* "if notime and nodate and fromTime != None"
UseFromTimeNoDateForgotten(notime, nodate, fromTime) == notime /\ fromTime # None

UseFromTime(notime, nodate, fromTime) == notime /\ nodate /\ fromTime # None

ApplyOffset(st, fromTime) ==
    LET d0 == st.dtdict
        K  == DOMAIN d0
    IN  IF "offset" \in K
        THEN LET d1 == IF UseFromTime(st.notime, st.nodate, fromTime)
                       THEN [x \in K \cup DatetimeFields |->
                                CASE x = "year"   -> fromTime.year
                                  [] x = "month"  -> fromTime.month
                                  [] x = "day"    -> fromTime.day
                                  [] x = "hour"   -> fromTime.hour
                                  [] x = "minute" -> fromTime.minute
                                  [] x = "second" -> fromTime.second
                                  [] OTHER        -> d0[x]]
                       ELSE d0
                 offset == d1["offset"][1]
                 d2     == Del(d1, "offset")
                 base   == DatetimeKw(d2)
                 unit   == NormalizeUnit(offset.unit)
                 mult   == IF offset.sign = "-" THEN -1 ELSE 1
                 td     == Timedelta(unit, mult * offset.val)
                 sum    == AddDelta(base.dt, td.days, td.seconds)
             IN  IF base.status # "ok"
                 THEN [status |-> base.status, dt |-> None, kwargs |-> d2]
                 ELSE IF td = None
                 THEN [status |-> "TypeError", dt |-> None, kwargs |-> d2]
                 ELSE IF sum = None
                 THEN [status |-> "OverflowError", dt |-> None, kwargs |-> d2]
                 ELSE [status |-> "ok", dt |-> sum, kwargs |-> d2]
        ELSE LET r == DatetimeKw(d0)
             IN  [status |-> r.status, dt |-> r.dt, kwargs |-> d0]

(***************************************************************************)
(* _interpretDateTime(timemark, fromTime), with datetime.now() = nw.       *)
(* status is "ok" (dt is returned), "SystemExit" (leftover is the text     *)
(* that was not understood) or the exception that escapes; matched is      *)
(* dtdict as the tokenizer loop leaves it, kwargs is dtdict as it is       *)
(* handed to the datetime constructor.                                     *)
(***************************************************************************)
InterpretDateTime(timemark, fromTime, nw) ==
    LET tk == Tokenize(timemark)
    IN  IF tk.timemark # <<>>
        THEN [status |-> "SystemExit", dt |-> None, leftover |-> tk.timemark,
              matched |-> tk.dtdict, kwargs |-> tk.dtdict]
        ELSE LET r == ApplyOffset(
                        ResolveTime(
                          ResolveDate(Put(tk.dtdict, "year", nw.year), nw)),
                        fromTime)
             IN  [status |-> r.status, dt |-> r.dt, leftover |-> <<>>,
                  matched |-> tk.dtdict, kwargs |-> r.kwargs]

(***************************************************************************)
(* The inputs of the model: the components an expression is built from,    *)
(* each with the kind the docstring of DateTimeFilter gives it ("junk" is  *)
(* text that is no component), and the values of datetime.now().           *)
(***************************************************************************)
Name(s) == [t |-> "name", s |-> s]
Num(digits, val) == [t |-> "num", digits |-> digits, val |-> val]
Hm(hd, h, m) == [t |-> "hm", hd |-> hd, h |-> h, m |-> m]
Hms(hd, h, m, s) == [t |-> "hms", hd |-> hd, h |-> h, m |-> m, s |-> s]
Off(sign, val, unit) == [t |-> "off", sign |-> sign, val |-> val, unit |-> unit]
Comp(kind, toks) == [kind |-> kind, toks |-> toks]

Components ==
    {Comp("weekday", <<Name("Sun")>>),
     Comp("date", <<Name("Sep"), Num(2, 5)>>),
     Comp("date", <<Name("Feb"), Num(2, 30)>>),
     Comp("time2", <<Hm(2, 10, 15)>>),
     Comp("time3", <<Hms(2, 23, 59, 59)>>),
     Comp("offset", <<Off("+", 1, "h")>>),
     Comp("offset", <<Off("-", 1, "d")>>),
     Comp("offset", <<Off("+", 1, "mo")>>),
     Comp("junk", <<Name("tomorrow")>>)}
      \cup {Comp("word", <<Name(w)>>) : w \in wordRegex}

Exprs == SeqsUpTo(Components, MaxComps)

\* the text of an expression: its components joined by spaces
TextOf(expr) == Flatten([i \in 1..Len(expr) |-> expr[i].toks])

FromExprs ==
    {<<Comp("word", <<Name("start")>>)>>,
     <<>>,
     <<Comp("word", <<Name("today")>>)>>,
     <<Comp("offset", <<Off("+", 1, "h")>>)>>,
     <<Comp("word", <<Name("today")>>), Comp("offset", <<Off("-", 1, "d")>>)>>,
     <<Comp("junk", <<Name("tomorrow")>>)>>}

Nows == {Datetime(2024, 1, 2, 10, 30, 45),
         Datetime(2023, 12, 31, 8, 0, 0)}

(***************************************************************************)
(* DateTimeFilter.__init__: --from is interpreted, then --to with the      *)
(* resolved from as fromTime.  An exception or SystemExit ends the run.    *)
(***************************************************************************)
InitInterpret ==
    /\ now \in Nows
    /\ fromExpr = <<>> /\ toExpr = <<>>
    /\ fromDateTime = None /\ toDateTime = None
    /\ last = None
    /\ toReached = FALSE
    /\ acc = None /\ calls = <<>>
    /\ slowActive = FALSE /\ words = <<>>
    /\ logfile = <<>> /\ lineno = 0 /\ output = <<>> /\ evaluated = {}
    /\ error = "none"
    /\ pc = "new"

pipelineVars == <<toReached, acc, calls, slowActive, words, logfile, lineno, output, evaluated>>

InterpretFrom ==
    /\ pc = "new"
    /\ \E e \in FromExprs :
         \E r \in {InterpretDateTime(TextOf(e), None, now)} :
             /\ fromExpr' = e
             /\ last' = [role |-> "from", status |-> r.status,
                         leftover |-> r.leftover, matched |-> r.matched,
                         kwargs |-> r.kwargs]
             /\ fromDateTime' = r.dt
             /\ error' = IF r.status = "ok" THEN "none" ELSE r.status
             /\ pc' = IF r.status = "ok" THEN "from" ELSE "exit"
    /\ UNCHANGED <<now, toExpr, toDateTime>>
    /\ UNCHANGED pipelineVars

InterpretTo ==
    /\ pc = "from"
    /\ \E e \in Exprs :
         \E r \in {InterpretDateTime(TextOf(e), fromDateTime, now)} :
             /\ toExpr' = e
             /\ last' = [role |-> "to", status |-> r.status,
                         leftover |-> r.leftover, matched |-> r.matched,
                         kwargs |-> r.kwargs]
             /\ toDateTime' = r.dt
             /\ error' = IF r.status = "ok" THEN "none" ELSE r.status
             /\ pc' = IF r.status = "ok" THEN "ready" ELSE "exit"
    /\ UNCHANGED <<now, fromExpr, fromDateTime>>
    /\ UNCHANGED pipelineVars

NextInterpret == InterpretFrom \/ InterpretTo

SpecInterpret == InitInterpret /\ [][NextInterpret]_vars

(***************************************************************************)
(* Properties of _interpretDateTime, stated on the last call made.         *)
(***************************************************************************)
LastExpr == IF last.role = "from" THEN fromExpr ELSE toExpr

LastResult == IF last.role = "from" THEN fromDateTime ELSE toDateTime

Called == last # None

\* the length of one unit in seconds, for the units timedelta knows
UnitSeconds(unit) ==
    CASE unit \in {"s", "sec"}   -> 1
      [] unit \in {"m", "min"}   -> 60
      [] unit \in {"h", "hours"} -> 3600
      [] unit \in {"d", "days"}  -> 86400
      [] unit \in {"w", "weeks"} -> 604800

OffsetSeconds(tok) == (IF tok.sign = "-" THEN -1 ELSE 1) * tok.val * UnitSeconds(tok.unit)

\* b is exactly secs seconds after a (|secs| below 100 days)
ExactlyLater(a, b, secs) ==
    LET dd == Ymd2Ord(b.year, b.month, b.day) - Ymd2Ord(a.year, a.month, a.day)
    IN  /\ dd \in -100..100
        /\ dd * 86400 + SecondOfDay(b) - SecondOfDay(a) = secs

\* C5: whenever an expression that ends in an offset is resolved, the result
\* is exactly the signed offset after its anchor: the resolved from when the
\* expression is the to expression and holds nothing but the offset, and
\* otherwise the instant the expression resolves to without its offset (the
\* minimum instant for an offset-only from).
C5_OffsetAnchoring ==
    (Called /\ last.status = "ok" /\ LastExpr # <<>>
            /\ LastExpr[Len(LastExpr)].kind = "offset") =>
        LET e      == LastExpr
            off    == e[Len(e)].toks[1]
            rest   == SubSeq(e, 1, Len(e) - 1)
            anchor == IF last.role = "to" /\ rest = <<>>
                      THEN fromDateTime
                      ELSE InterpretDateTime(TextOf(rest), None, now).dt
        IN  /\ anchor # None
            /\ rest = <<>> /\ last.role = "from" => anchor = MinInstant
            /\ ExactlyLater(anchor, LastResult, OffsetSeconds(off))

\* C5 witness: --from today --to +1h is resolved to today 01:00:00
C5_Witness ==
    /\ pc = "ready"
    /\ fromExpr = <<Comp("word", <<Name("today")>>)>>
    /\ toExpr = <<Comp("offset", <<Off("+", 1, "h")>>)>>
    /\ toDateTime = Datetime(now.year, now.month, now.day, 1, 0, 0)

\* C6: "<weekday> <time-short>" resolves to a date that falls on the named
\* weekday, is not later than today and is at most 6 days before today.
C6_WeekdayResolution ==
    (Called /\ Len(LastExpr) = 2
            /\ LastExpr[1].kind = "weekday" /\ LastExpr[2].kind = "time2") =>
        /\ last.status = "ok"
        /\ LET d     == Ymd2Ord(LastResult.year, LastResult.month, LastResult.day)
               today == Ymd2Ord(now.year, now.month, now.day)
           IN  /\ Weekday(d) = IndexOf(weekdays, LastExpr[1].toks[1].s) - 1
               /\ d <= today
               /\ today - d <= 6

\* C7: start resolves to the minimum instant, and end to an instant that no
\* representable instant is later than.
C7_ExtremeWords ==
    (Called /\ Len(LastExpr) = 1 /\ LastExpr[1].kind = "word") =>
        /\ LastExpr[1].toks[1].s = "start" =>
             last.status = "ok" /\ LastResult = MinInstant
        /\ LastExpr[1].toks[1].s = "end" =>
             /\ last.status = "ok"
             /\ ~DtLess(LastResult, Datetime(MAXYEAR, 12, 31, 23, 59, 59))

\* the kinds of components, in the order the docstring gives them
GrammarOrder == <<"weekday", "date", "word", "time2", "time3", "offset">>

Rank(kind) == IndexOf(GrammarOrder, kind)

\* every component is a valid component and no two are of the same kind
ValidDistinct(e) ==
    /\ \A i \in 1..Len(e) : e[i].kind \in Range(GrammarOrder)
    /\ \A i, j \in 1..Len(e) : i # j => e[i].kind # e[j].kind

\* the first component that is of an earlier kind than the one before it
\* (Len(e) + 1 when the kinds are in grammar order)
FirstOutOfOrder(e) ==
    LET bad == {i \in 2..Len(e) : Rank(e[i].kind) < Rank(e[i - 1].kind)}
    IN  IF bad = {} THEN Len(e) + 1
        ELSE CHOOSE i \in bad : \A j \in bad : i <= j

\* each component of e[1..n) recorded under its kind, and nothing else
RecordedUpTo(e, n, matched) ==
    /\ DOMAIN matched = {e[i].kind : i \in 1..(n - 1)}
    /\ \A i \in 1..(n - 1) : matched[e[i].kind] = e[i].toks

\* C8 as stated: every sequence of valid components of pairwise distinct
\* kinds is consumed completely, each component recorded under its kind.
C8_AnyOrderConsumed ==
    (Called /\ ValidDistinct(LastExpr)) =>
        /\ last.status # "SystemExit"
        /\ RecordedUpTo(LastExpr, Len(LastExpr) + 1, last.matched)

\* C8 amended: the six grammars are tried once each, in the fixed order
\* weekday, date, word, time-short, time-long, offset.  A sequence of valid
\* components of pairwise distinct kinds is consumed completely, each
\* component recorded under its kind, exactly when its kinds are in that
\* order; otherwise the expression is rejected, carrying the text from the
\* first out-of-order component on, with the components before it recorded.
\* Any expression is rejected exactly when text is left unconsumed.
C8_SinglePassTokenizer ==
    Called =>
        /\ last.status = "SystemExit" <=> last.leftover # <<>>
        /\ ValidDistinct(LastExpr) =>
             LET e == LastExpr
                 k == FirstOutOfOrder(e)
             IN  /\ last.status = "SystemExit" <=> k <= Len(e)
                 /\ last.leftover = TextOf(SubSeq(e, k, Len(e)))
                 /\ RecordedUpTo(e, k, last.matched)

\* C8 witness: "10:15 Sun" is rejected with "Sun" left over
C8_Witness ==
    /\ Called /\ last.role = "to"
    /\ toExpr = <<Comp("time2", <<Hm(2, 10, 15)>>), Comp("weekday", <<Name("Sun")>>)>>
    /\ last.status = "SystemExit"
    /\ last.leftover = <<Name("Sun")>>

\* C10: for every expression the tokenizer accepts, the interpreter ends
\* with exactly year, month, day, hour, minute and second in dtdict and
\* either returns the instant or fails because the fields are no valid
\* date-time (ValueError); it fails in no other way.
C10_ResolverTotal ==
    (Called /\ last.status # "SystemExit") =>
        /\ DOMAIN last.kwargs = DatetimeFields
        /\ last.status \in {"ok", "ValueError"}

(***************************************************************************)
(* Log lines.  A line is its whitespace-separated tokens (line.split()),   *)
(* whether re.search(r'\d{4,}ms', line) finds a match (ms), and the set of *)
(* --word patterns re.search finds in it (hits).  A line starts with its   *)
(* first token.                                                            *)
(***************************************************************************)
Text(s) == [t |-> "text", s |-> s]
Numx(digits, val) == [t |-> "numx", digits |-> digits, val |-> val]
Hmsx(hd, h, m, s) == [t |-> "hmsx", hd |-> hd, h |-> h, m |-> m, s |-> s]
Stars(n) == [t |-> "stars", n |-> n]
Line(toks, ms, hits) == [toks |-> toks, ms |-> ms, hits |-> hits]

LineMarker     == Line(<<Stars(3), Text("SERVER"), Text("RESTARTED")>>, FALSE, {})
LineShort      == Line(<<Text("connection"), Text("accepted")>>, FALSE, {})
LineInRange    == Line(<<Name("Wed"), Name("Sep"), Num(2, 5), Hms(2, 23, 2, 26), Text("[conn1]")>>, TRUE, {"query"})
LineBefore     == Line(<<Name("Mon"), Name("Aug"), Num(2, 5), Hms(2, 23, 2, 26), Text("[conn1]")>>, FALSE, {"query"})
LineAfter      == Line(<<Name("Fri"), Name("Oct"), Num(2, 5), Hms(2, 23, 2, 26), Text("[conn1]")>>, TRUE, {})
LineBadDay     == Line(<<Name("Wed"), Name("Feb"), Num(2, 30), Hms(2, 10, 0, 0), Text("[conn1]")>>, TRUE, {"query"})
LineMillis     == Line(<<Name("Wed"), Name("Sep"), Num(2, 5), Hmsx(2, 23, 2, 26), Text("[conn1]")>>, TRUE, {"query"})
LineAtFrom     == Line(<<Name("Sat"), Name("Sep"), Num(2, 1), Hms(2, 0, 0, 0), Text("[initandlisten]")>>, FALSE, {})
LineAtTo       == Line(<<Name("Sun"), Name("Sep"), Num(2, 30), Hms(2, 0, 0, 0), Text("[conn1]")>>, FALSE, {})
LineBadMonth   == Line(<<Name("Wed"), Name("Foo"), Num(2, 5), Hms(2, 23, 2, 26), Text("[conn1]")>>, FALSE, {})
LineDaySuffix  == Line(<<Name("Wed"), Name("Sep"), Numx(1, 5), Hms(2, 23, 2, 26), Text("[conn1]")>>, FALSE, {})
LineShortHour  == Line(<<Name("Wed"), Name("Sep"), Num(2, 5), Hms(1, 1, 2, 3), Text("[conn1]")>>, FALSE, {})
LineBadHour    == Line(<<Name("Wed"), Name("Sep"), Num(2, 5), Hms(2, 25, 2, 3), Text("[conn1]")>>, FALSE, {})
LineNoDay      == Line(<<Name("Wed"), Name("Sep"), Text("xx"), Hms(2, 23, 2, 26), Text("[conn1]")>>, FALSE, {})
LineTwoStars   == Line(<<Stars(2), Text("note")>>, FALSE, {})
LineLateMarker == Line(<<Stars(3), Name("Oct"), Num(2, 5), Hms(2, 23, 2, 26)>>, FALSE, {})

\* the lines a log file is made of
FileLines == {LineMarker, LineShort, LineInRange, LineBefore, LineAfter, LineBadDay}

\* the lines DateTimeFilter.accept is tried on
LogLines == FileLines \cup {LineMillis, LineAtFrom, LineAtTo, LineBadMonth,
                            LineDaySuffix, LineShortHour, LineBadHour,
                            LineNoDay, LineTwoStars, LineLateMarker}

\* what parse prints that is no line of the log file
ArgsLine == Line(<<Text("{'logfile':"), Text("...}")>>, FALSE, {})
SkipLine == Line(<<Text("skip"), Text("remaining"), Text("lines")>>, FALSE, {})

\* resolved boundaries: start, Sep 1, Sep 30 and end as _interpretDateTime
\* resolves them in the year y
FromChoices(y) == {MinInstant, Datetime(y, 9, 1, 0, 0, 0), Datetime(y, 9, 30, 0, 0, 0)}

ToChoices(y) == {Datetime(MAXYEAR, 12, 31, 0, 0, 0), Datetime(y, 9, 30, 0, 0, 0),
                 Datetime(y, 9, 1, 0, 0, 0)}

(***************************************************************************)
(* DateTimeFilter.accept and skipRemaining.                                *)
(***************************************************************************)
\* re.match(r'\d{1,2}', day): the token starts with a digit
StartsWithDigit(tok) == tok.t \in {"num", "numx", "hm", "hms", "hmsx"}

\* re.match(r'\d{2}:\d{2}:\d{2}', time): a prefix match
StartsWithTime(tok) == tok.t \in {"hms", "hmsx"} /\ tok.hd = 2

\* "fromDateTime <= dt <= toDateTime"
InRangeExclusive(dt, fromDT, toDT) == DtLeq(fromDT, dt) /\ DtLess(dt, toDT)

InRange(dt, fromDT, toDT) == DtLeq(fromDT, dt) /\ DtLeq(dt, toDT)

\* accept(line) with self.toReached = reached and datetime.now().year =
\* year: the value returned, the new self.toReached and the exception raised
DateTimeAccept(line, fromDT, toDT, reached, year) ==
    LET tokens == line.toks
        pass   == [ret |-> TRUE, toReached |-> reached, raised |-> "none"]
        raise  == [ret |-> FALSE, toReached |-> reached, raised |-> "ValueError"]
    IN  IF Len(tokens) < 4 THEN pass
        ELSE LET month == tokens[2]
                 day   == tokens[3]
                 time  == tokens[4]
             IN  IF ~(/\ month.t = "name" /\ month.s \in Range(months)
                      /\ StartsWithDigit(day)
                      /\ StartsWithTime(time))
                 THEN pass
                 \* int(day) needs digits only; h, m, s = time.split(':')
                 \* and int(s) need exactly H:M:S
                 ELSE IF day.t # "num" \/ time.t # "hms" THEN raise
                 ELSE IF ~ValidFields(year, IndexOf(months, month.s), day.val,
                                      time.h, time.m, time.s)
                 THEN raise
                 ELSE LET dt == Datetime(year, IndexOf(months, month.s), day.val,
                                         time.h, time.m, time.s)
                      IN  IF InRange(dt, fromDT, toDT)
                          THEN [ret |-> TRUE, toReached |-> FALSE, raised |-> "none"]
                          ELSE IF DtLess(toDT, dt)
                          THEN [ret |-> FALSE, toReached |-> TRUE, raised |-> "none"]
                          ELSE [ret |-> FALSE, toReached |-> reached, raised |-> "none"]

SkipRemainingNever(reached) == FALSE

SkipRemaining(reached) == reached

(***************************************************************************)
(* DateTimeFilter.accept called on one line after another.                 *)
(* acc records the last call: the line, what was returned or raised, the   *)
(* flag before the call; calls is the lines of all calls made.             *)
(***************************************************************************)
InitAccept ==
    /\ now \in Nows
    /\ fromExpr = <<>> /\ toExpr = <<>>
    /\ fromDateTime \in FromChoices(now.year)
    /\ toDateTime \in ToChoices(now.year)
    /\ last = None
    /\ toReached = FALSE
    /\ acc = None /\ calls = <<>>
    /\ slowActive = FALSE /\ words = <<>>
    /\ logfile = <<>> /\ lineno = 0 /\ output = <<>> /\ evaluated = {}
    /\ error = "none"
    /\ pc = "ready"

AcceptCall ==
    /\ pc = "ready"
    /\ Len(calls) < MaxCalls
    /\ \E line \in LogLines :
         LET r == DateTimeAccept(line, fromDateTime, toDateTime, toReached, now.year)
         IN  /\ acc' = [line |-> line, ret |-> r.ret, raised |-> r.raised,
                        before |-> toReached]
             /\ calls' = Append(calls, line)
             /\ toReached' = r.toReached
             /\ error' = r.raised
             /\ pc' = IF r.raised = "none" THEN "ready" ELSE "exit"
    /\ UNCHANGED <<now, fromExpr, toExpr, fromDateTime, toDateTime, last,
                   slowActive, words, logfile, lineno, output, evaluated>>

NextAccept == AcceptCall

SpecAccept == InitAccept /\ [][NextAccept]_vars

(***************************************************************************)
(* Properties of DateTimeFilter.accept.                                    *)
(***************************************************************************)
\* the timestamp a line carries in the layout <tag> <month> <day> <HH:MM:SS>,
\* read in year y; None when the line carries no valid timestamp
Timestamp(line, y) ==
    LET tk == line.toks
    IN  IF /\ Len(tk) >= 4
           /\ tk[2].t = "name" /\ tk[2].s \in Range(months)
           /\ tk[3].t = "num" /\ tk[3].digits \in 1..2
           /\ tk[4].t = "hms" /\ tk[4].hd = 2
           /\ ValidFields(y, IndexOf(months, tk[2].s), tk[3].val,
                          tk[4].h, tk[4].m, tk[4].s)
        THEN Datetime(y, IndexOf(months, tk[2].s), tk[3].val,
                      tk[4].h, tk[4].m, tk[4].s)
        ELSE None

Stamped(line) == Timestamp(line, now.year) # None

Within(line) ==
    /\ Stamped(line)
    /\ DtLeq(fromDateTime, Timestamp(line, now.year))
    /\ DtLeq(Timestamp(line, now.year), toDateTime)

PastTo(line) == Stamped(line) /\ DtLess(toDateTime, Timestamp(line, now.year))

AcceptCalled == acc # None

\* C4: a line that carries no valid timestamp is accepted, the past-range
\* flag is left as it was, and no error is raised.
C4_FailOpen ==
    (AcceptCalled /\ ~Stamped(acc.line)) =>
        /\ acc.raised = "none"
        /\ acc.ret
        /\ toReached = acc.before

\* the calls that set or reset the flag according to the claim
FlagChanging == {i \in 1..Len(calls) : Within(calls[i]) \/ PastTo(calls[i])}

\* C9: for a line with timestamp t, accept returns TRUE and resets the flag
\* when from <= t <= to, returns FALSE and sets the flag when t > to, and
\* otherwise returns FALSE and leaves the flag as it was; an inverted range
\* accepts no such line; and skipRemaining() is true exactly when the last
\* flag-changing line had t > to.
C9_RangeDecision ==
    /\ (AcceptCalled /\ Stamped(acc.line)) =>
          LET t == Timestamp(acc.line, now.year)
          IN  /\ acc.raised = "none"
              /\ Within(acc.line) => acc.ret /\ ~toReached
              /\ DtLess(toDateTime, t) => ~acc.ret /\ toReached
              /\ (~Within(acc.line) /\ ~DtLess(toDateTime, t)) =>
                    ~acc.ret /\ toReached = acc.before
              /\ acc.ret <=> Within(acc.line)
              /\ DtLess(toDateTime, fromDateTime) => ~acc.ret
    /\ pc = "ready" =>
          (SkipRemaining(toReached) <=>
              /\ FlagChanging # {}
              /\ PastTo(calls[CHOOSE i \in FlagChanging : \A j \in FlagChanging : j <= i]))

\* C9 witness: the flag was set by a line past to, and a later line at
\* exactly to is accepted and resets it
C9_Witness ==
    /\ AcceptCalled
    /\ acc.before /\ ~toReached /\ acc.ret
    /\ Stamped(acc.line) /\ Timestamp(acc.line, now.year) = toDateTime

(***************************************************************************)
(* MongoLogParser.parse with the filters of __main__: SlowFilter,          *)
(* WordFilter and DateTimeFilter, in that order.  DateTimeFilter is always *)
(* active ('from' is always among the arguments); slowActive and words     *)
(* (empty when --word is not given) say whether the other two are.         *)
(* output is what is printed: [src, text], src the number of the input     *)
(* line printed, 0 for text that is no input line.  evaluated is the set   *)
(* of input lines the filters were asked about.                            *)
(***************************************************************************)
Entry(src, text) == [src |-> src, text |-> text]

\* line.startswith('***')
StartsWithMarkerFourStars(line) ==
    Len(line.toks) >= 1 /\ line.toks[1].t = "stars" /\ line.toks[1].n >= 4

StartsWithMarker(line) ==
    Len(line.toks) >= 1 /\ line.toks[1].t = "stars" /\ line.toks[1].n >= 3

\* SlowFilter.accept
SlowAccept(line) == line.ms

\* WordFilter.accept
WordAccept(line) == \E i \in 1..Len(words) : words[i] \in line.hits

InitParse ==
    /\ now \in Nows
    /\ fromExpr = <<>> /\ toExpr = <<>>
    /\ fromDateTime \in FromChoices(now.year)
    /\ toDateTime \in ToChoices(now.year)
    /\ last = None
    /\ toReached = FALSE
    /\ acc = None /\ calls = <<>>
    /\ slowActive \in BOOLEAN
    /\ words \in {<<>>, <<"query">>}
    /\ logfile \in SeqsUpTo(FileLines, MaxLines)
    /\ lineno = 0
    /\ output = <<>>
    /\ evaluated = {}
    /\ error = "none"
    /\ pc = "start"

parseFixed == <<now, fromExpr, toExpr, fromDateTime, toDateTime, last, acc,
                calls, slowActive, words, logfile>>

\* the filters are in place, the log file is opened, "print args"
ParseStart ==
    /\ pc = "start"
    /\ output' = Append(output, Entry(0, ArgsLine))
    /\ pc' = "loop"
    /\ UNCHANGED <<toReached, lineno, evaluated, error>>
    /\ UNCHANGED parseFixed

\* one iteration of "for line in logfile": a line that starts with ***
LoopMarker ==
    /\ pc = "loop"
    /\ lineno < Len(logfile)
    /\ StartsWithMarker(logfile[lineno + 1])
    /\ output' = Append(output, Entry(lineno + 1, logfile[lineno + 1]))
    /\ lineno' = lineno + 1
    /\ UNCHANGED <<toReached, evaluated, error, pc>>
    /\ UNCHANGED parseFixed

\* one iteration: every active filter is asked (the list is built in full
\* before all() looks at it), the line is printed if all accept, and the
\* loop is left if DateTimeFilter.skipRemaining() says so
LoopFilter ==
    /\ pc = "loop"
    /\ lineno < Len(logfile)
    /\ ~StartsWithMarker(logfile[lineno + 1])
    /\ LET line    == logfile[lineno + 1]
           r       == DateTimeAccept(line, fromDateTime, toDateTime, toReached, now.year)
           accepts == /\ slowActive => SlowAccept(line)
                      /\ words # <<>> => WordAccept(line)
                      /\ r.ret
           printed == IF accepts THEN Append(output, Entry(lineno + 1, line))
                      ELSE output
       IN  /\ r.raised = "none"
           /\ toReached' = r.toReached
           /\ IF SkipRemaining(r.toReached)
              THEN output' = Append(printed, Entry(0, SkipLine)) /\ pc' = "done"
              ELSE output' = printed /\ pc' = "loop"
    /\ evaluated' = evaluated \cup {lineno + 1}
    /\ lineno' = lineno + 1
    /\ UNCHANGED error
    /\ UNCHANGED parseFixed

\* one iteration: DateTimeFilter.accept raises, the run ends
LoopRaise ==
    /\ pc = "loop"
    /\ lineno < Len(logfile)
    /\ ~StartsWithMarker(logfile[lineno + 1])
    /\ LET r == DateTimeAccept(logfile[lineno + 1], fromDateTime, toDateTime,
                               toReached, now.year)
       IN  /\ r.raised # "none"
           /\ error' = r.raised
    /\ evaluated' = evaluated \cup {lineno + 1}
    /\ lineno' = lineno + 1
    /\ pc' = "error"
    /\ UNCHANGED <<toReached, output>>
    /\ UNCHANGED parseFixed

\* the file is exhausted
EndOfFile ==
    /\ pc = "loop"
    /\ lineno = Len(logfile)
    /\ pc' = "done"
    /\ UNCHANGED <<toReached, lineno, output, evaluated, error>>
    /\ UNCHANGED parseFixed

Next == ParseStart \/ LoopMarker \/ LoopFilter \/ LoopRaise \/ EndOfFile

Spec == InitParse /\ [][Next]_vars

(***************************************************************************)
(* Properties of parse.                                                    *)
(***************************************************************************)
\* the line begins with the three characters ***
IsRestartMarker(line) ==
    line.toks # <<>> /\ line.toks[1].t = "stars" /\ line.toks[1].n >= 3

\* input line i has been printed, verbatim
Emitted(i) == \E k \in 1..Len(output) : output[k] = Entry(i, logfile[i])

\* C1: once a non-marker line with a timestamp later than to has been
\* processed, the run is over: no later line is read, evaluated by a filter
\* or written to the output.
C1_EarlyStop ==
    \A i \in 1..lineno :
        (~IsRestartMarker(logfile[i]) /\ PastTo(logfile[i])) =>
            /\ lineno = i
            /\ pc = "done"
            /\ \A j \in evaluated : j <= i
            /\ \A k \in 1..Len(output) : output[k].src <= i

\* C1 witness: the run stopped at a line past to although a line inside
\* [from, to] follows it
C1_Witness ==
    /\ pc = "done"
    /\ lineno >= 1 /\ lineno < Len(logfile)
    /\ PastTo(logfile[lineno])
    /\ \E j \in (lineno + 1)..Len(logfile) : Within(logfile[j])

\* C2 as stated: when the run has ended (without an error), every line of
\* the input that begins with *** has been emitted.
C2_MarkerAlwaysEmitted ==
    pc = "done" =>
        \A i \in 1..Len(logfile) : IsRestartMarker(logfile[i]) => Emitted(i)

\* C2 amended: every line beginning with *** that parse reads before it
\* stops is emitted, whatever the active filters, the boundaries and the
\* lines before it.
C2_MarkerEmittedWhenRead ==
    \A i \in 1..lineno : IsRestartMarker(logfile[i]) => Emitted(i)

\* C2 witness: a marker line that the active filters would reject is
\* emitted after a line that was rejected
C2_Witness ==
    /\ slowActive /\ words # <<>>
    /\ lineno >= 2
    /\ IsRestartMarker(logfile[lineno]) /\ ~logfile[lineno].ms
    /\ Emitted(lineno)
    /\ ~IsRestartMarker(logfile[lineno - 1]) /\ ~Emitted(lineno - 1)

\* what every active filter accepts according to its contract
AcceptedByAll(line) ==
    /\ slowActive => line.ms
    /\ words # <<>> => \E i \in 1..Len(words) : words[i] \in line.hits
    /\ Stamped(line) => Within(line)

RECURSIVE ExpectedOutput(_)
ExpectedOutput(n) ==
    IF n = 0 THEN <<>>
    ELSE IF IsRestartMarker(logfile[n]) \/ AcceptedByAll(logfile[n])
    THEN Append(ExpectedOutput(n - 1), Entry(n, logfile[n]))
    ELSE ExpectedOutput(n - 1)

\* C3: the output is exactly the lines read so far that begin with *** or
\* are accepted by every active filter, verbatim and in input order, and
\* nothing else.
C3_OutputContent == output = ExpectedOutput(lineno)

====
